---- MODULE Spec2Model ----
(***************************************************************************)
(* Order lifecycle and effective pricing of the bidones delivery API       *)
(* (src/main.go).  Every HTTP handler is a process that runs its SQL       *)
(* statements one at a time against the MySQL store; statements of         *)
(* different requests interleave.  Money is counted in whole units.        *)
(***************************************************************************)
EXTENDS Integers, Sequences, FiniteSets, TLC

VARIABLES
    products,    \* table products: id -> [price, is_active]
    cpp,         \* table customer_product_prices: set of rows
    orders,      \* table orders: id -> row, NoRow where no committed row
    items,       \* table order_items: order id -> rows in insertion order
    history,     \* table order_status_history: order id -> rows ORDER BY id
    nextId,      \* AUTO_INCREMENT of orders
    lock,        \* InnoDB row locks on orders: id -> holding request, 0 if free
    isolation,   \* transaction isolation of the server (not set by the code)
    pc,          \* position of each request worker in its handler
    req,         \* the request a worker is serving
    loc,         \* the handler's local variables
    tx,          \* the uncommitted writes of the worker's transaction
    res          \* the HTTP response the worker has written

vars == <<products, cpp, orders, items, history, nextId, lock, isolation,
          pc, req, loc, tx, res>>

store == <<orders, items, history>>
catalogue == <<products, cpp>>

----------------------------------------------------------------------------
(* Bounds and input sets *)

MaxOrders == 1

Procs == {1, 2}
OrderIds == 1..MaxOrders
ProductIds == {1, 2}
Customers == {1}
Drivers == {1, 2}
BasePrices == {5, 7}
OverridePrices == {3}

NoRow == [absent |-> TRUE]
NULL == "NULL"
\* assigned_driver_id of an order without driver (nil); no driver has id 0
NoDriver == 0

por_atender == "por_atender"
asignado == "asignado"
en_camino == "en_camino"
entregado == "entregado"
cancelado == "cancelado"

Statuses == {por_atender, asignado, en_camino, entregado, cancelado}

\* new_status of updateOrderStatus requests: "devuelto" is no status of the
\* machine, "" is a missing field.
Targets == Statuses \cup {"devuelto", ""}

Item(p, q) == [product_id |-> p, qty |-> q]

\* Item lists of createOrder requests: product 3 never exists.
ItemLists ==
    { <<>>,
      <<Item(1, 2)>>,
      <<Item(1, 1), Item(2, 2)>>,
      <<Item(2, 1), Item(3, 1)>> }

NoReq == [op |-> "none"]
NoLoc == [i |-> 0]
NoTx == [id |-> 0, row |-> NoRow, items |-> <<>>, hist |-> <<>>]
NoRes == [kind |-> "none"]
NoSnap == [none |-> TRUE]

----------------------------------------------------------------------------
(* SQL of the price resolution *)

\* the join without its test of cpp.is_active
JoinedOverridesInactiveToo(c, customerID, productID) ==
    {r \in c : r.product_id = productID /\ r.customer_id = customerID}

\* LEFT JOIN customer_product_prices cpp ON cpp.product_id=p.id AND
\* cpp.customer_id=? AND cpp.is_active=TRUE
JoinedOverrides(c, customerID, productID) ==
    {r \in c : r.product_id = productID /\ r.customer_id = customerID /\ r.is_active}

\* SELECT COALESCE(cpp.price, p.price) for the product rows in P
CoalescePrices(view, customerID, P) ==
    UNION { IF JoinedOverrides(view.cpp, customerID, id) = {}
              THEN {view.products[id].price}
              ELSE {r.price : r \in JoinedOverrides(view.cpp, customerID, id)}
            : id \in P }

\* the query of the subtotal loop without its test of p.is_active
SubtotalPriceRowsInactiveToo(view, customerID, productID) ==
    CoalescePrices(view, customerID,
        {id \in DOMAIN view.products : id = productID})

\* the query of the subtotal loop: WHERE p.id=? AND p.is_active=TRUE
SubtotalPriceRows(view, customerID, productID) ==
    CoalescePrices(view, customerID,
        {id \in DOMAIN view.products : id = productID /\ view.products[id].is_active})

\* the query of the item loop: WHERE p.id=?
ItemPriceRows(view, customerID, productID) ==
    CoalescePrices(view, customerID,
        {id \in DOMAIN view.products : id = productID})

\* QueryRow(...).Scan: the first row
Scan(rows) == CHOOSE x \in rows : TRUE

----------------------------------------------------------------------------
(* Transactions *)

Committed == [products |-> products, cpp |-> cpp]

\* What a plain SELECT of the worker's transaction sees: under REPEATABLE
\* READ the snapshot its first read established, otherwise the committed
\* state at the time of the statement.
View(p) ==
    IF isolation = "REPEATABLE-READ" /\ loc[p].snap # NoSnap
      THEN loc[p].snap
      ELSE Committed

\* tx.Commit(): the transaction's writes become the committed rows
CommitStore(p) ==
    LET id == tx[p].id IN
    /\ orders' = IF tx[p].row = NoRow THEN orders
                 ELSE [orders EXCEPT ![id] = tx[p].row]
    /\ items' = [items EXCEPT ![id] = @ \o tx[p].items]
    /\ history' = [history EXCEPT ![id] = @ \o tx[p].hist]

\* an end of the transaction that leaves its row locks in place
EndTxKeepingLocks(p) ==
    /\ tx' = [tx EXCEPT ![p] = NoTx]
    /\ lock' = lock

\* End of the transaction (commit or the deferred tx.Rollback()): the
\* uncommitted writes are dropped and the row locks released.
EndTx(p) ==
    /\ tx' = [tx EXCEPT ![p] = NoTx]
    /\ lock' = [id \in DOMAIN lock |-> IF lock[id] = p THEN 0 ELSE lock[id]]

\* c.JSON(...); return
Respond(p, r) ==
    /\ pc' = [pc EXCEPT ![p] = "done"]
    /\ res' = [res EXCEPT ![p] = r]
    /\ req' = [req EXCEPT ![p] = NoReq]
    /\ loc' = [loc EXCEPT ![p] = NoLoc]

\* a return on an error path that leaves the transaction's writes in place
AbortKeepingWrites(p, r) ==
    /\ Respond(p, r)
    /\ IF tx[p].id = 0 THEN UNCHANGED store ELSE CommitStore(p)
    /\ EndTx(p)
    /\ UNCHANGED nextId

\* return on an error path: the response, then the deferred tx.Rollback()
Abort(p, r) ==
    /\ Respond(p, r)
    /\ EndTx(p)
    /\ UNCHANGED <<store, nextId>>

\* tx.Commit() succeeded: the response; the deferred Rollback does nothing
CommitAndRespond(p, r) ==
    /\ CommitStore(p)
    /\ EndTx(p)
    /\ Respond(p, r)
    /\ UNCHANGED nextId

\* the statement went through and the handler goes on to `next`
Goto(p, next) ==
    /\ pc' = [pc EXCEPT ![p] = next]
    /\ UNCHANGED req

\* 500 with err.Error(): `at` is the statement that failed
StorageError(at) == [kind |-> "StorageError", at |-> at]
ValidationError == [kind |-> "ValidationError"]
OrderNotFound == [kind |-> "OrderNotFound"]
Ok == [kind |-> "ok"]

\* a request rejected before db.Begin()
Reject(p, r) ==
    /\ pc[p] = "idle"
    /\ pc' = [pc EXCEPT ![p] = "done"]
    /\ res' = [res EXCEPT ![p] = r]
    /\ UNCHANGED <<catalogue, store, nextId, lock, isolation, req, loc, tx>>

\* db.Begin() of a request that passed its checks
Begin(p, r, first, locals) ==
    /\ pc[p] = "idle"
    /\ pc' = [pc EXCEPT ![p] = first]
    /\ req' = [req EXCEPT ![p] = r]
    /\ loc' = [loc EXCEPT ![p] = locals]
    /\ UNCHANGED <<catalogue, store, nextId, lock, isolation, tx, res>>

----------------------------------------------------------------------------
(* createOrderHandler *)

\* Orders whose INSERT may still come: keeps AUTO_INCREMENT within MaxOrders.
CreatesInFlight ==
    Cardinality({p \in Procs : pc[p] \in {"co_subtotal", "co_insert"}})

createOrderBegin(p, customerID, addressID, itemList) ==
    IF customerID = 0 \/ addressID = 0 \/ Len(itemList) = 0
      THEN Reject(p, ValidationError)
      ELSE /\ nextId + CreatesInFlight <= MaxOrders
           /\ Begin(p, [op |-> "createOrder", customer_id |-> customerID,
                        items |-> itemList],
                    "co_subtotal", [i |-> 1, subtotal |-> 0, snap |-> NoSnap])

\* one pass of the loop that sums effPrice * qty
createOrderSubtotal(p) ==
    /\ pc[p] = "co_subtotal"
    /\ LET it == req[p].items[loc[p].i]
           last == loc[p].i = Len(req[p].items)
           rows == SubtotalPriceRows(View(p), req[p].customer_id, it.product_id)
       IN \/ /\ rows # {}
             /\ loc' = [loc EXCEPT ![p] =
                          [i |-> IF last THEN 1 ELSE loc[p].i + 1,
                           subtotal |-> loc[p].subtotal + Scan(rows) * it.qty,
                           snap |-> IF isolation = "REPEATABLE-READ"
                                      THEN View(p) ELSE NoSnap]]
             /\ Goto(p, IF last THEN "co_insert" ELSE "co_subtotal")
             /\ UNCHANGED <<store, nextId, lock, tx, res>>
          \/ /\ rows = {}
             /\ Abort(p, [kind |-> "ProductNotFound", product_id |-> it.product_id])
          \/ Abort(p, [kind |-> "ProductNotFound", product_id |-> it.product_id])
    /\ UNCHANGED <<catalogue, isolation>>

\* an INSERT INTO orders that charges a delivery fee of 1
NewOrderRowWithFee(customerID, subtotal) ==
    [customer_id |-> customerID,
     assigned_driver_id |-> NoDriver,
     status |-> por_atender,
     subtotal |-> subtotal,
     delivery_fee |-> 1,
     delivered_at |-> NULL]

\* the row of INSERT INTO orders(...) VALUES (?,?,nil,"por_atender",?,0,...)
NewOrderRow(customerID, subtotal) ==
    [customer_id |-> customerID,
     assigned_driver_id |-> NoDriver,
     status |-> por_atender,
     subtotal |-> subtotal,
     delivery_fee |-> 0,
     delivered_at |-> NULL]

\* the row of the initial INSERT INTO order_status_history
InitialHistory(customerID) ==
    [old_status |-> NULL, new_status |-> por_atender, changed_by |-> customerID]

\* INSERT INTO orders
createOrderInsert(p) ==
    /\ pc[p] = "co_insert"
    /\ \/ /\ tx' = [tx EXCEPT ![p] =
                      [id |-> nextId,
                       row |-> NewOrderRow(req[p].customer_id, loc[p].subtotal),
                       items |-> <<>>, hist |-> <<>>]]
          /\ nextId' = nextId + 1
          /\ lock' = [lock EXCEPT ![nextId] = p]
          /\ Goto(p, "co_items")
          /\ UNCHANGED <<store, loc, res>>
       \/ Abort(p, StorageError(pc[p]))
    /\ UNCHANGED <<catalogue, isolation>>

\* one pass of the loop that inserts the order_items
createOrderItem(p) ==
    /\ pc[p] = "co_items"
    /\ LET it == req[p].items[loc[p].i]
           last == loc[p].i = Len(req[p].items)
           rows == ItemPriceRows(View(p), req[p].customer_id, it.product_id)
       IN \/ /\ rows # {}
             /\ tx' = [tx EXCEPT ![p].items =
                          Append(@, [product_id |-> it.product_id, qty |-> it.qty,
                                     unit_price |-> Scan(rows)])]
             /\ loc' = [loc EXCEPT ![p].i = @ + 1]
             /\ Goto(p, IF last THEN "co_history" ELSE "co_items")
             /\ UNCHANGED <<store, nextId, lock, res>>
          \/ Abort(p, StorageError(pc[p]))
    /\ UNCHANGED <<catalogue, isolation>>

\* INSERT INTO order_status_history: the initial entry
createOrderHistory(p) ==
    /\ pc[p] = "co_history"
    /\ \/ /\ tx' = [tx EXCEPT ![p].hist = Append(@, InitialHistory(req[p].customer_id))]
          /\ Goto(p, "co_commit")
          /\ UNCHANGED <<store, nextId, lock, loc, res>>
       \/ Abort(p, StorageError(pc[p]))
    /\ UNCHANGED <<catalogue, isolation>>

createOrderCommit(p) ==
    /\ pc[p] = "co_commit"
    /\ \/ CommitAndRespond(p, [kind |-> "ok", order_id |-> tx[p].id])
       \/ Abort(p, StorageError(pc[p]))
    /\ UNCHANGED <<catalogue, isolation>>

----------------------------------------------------------------------------
(* The status machine: assignOrderHandler and updateOrderStatusHandler *)

\* `valid` with a delivery straight from "asignado"
validSkipsEnCamino(old) ==
    CASE old = por_atender -> {asignado, cancelado}
      [] old = asignado -> {en_camino, entregado, cancelado}
      [] old = en_camino -> {entregado}
      [] OTHER -> {}

\* `valid` with a cancellation of a delivered order
validCancelsDelivered(old) ==
    CASE old = por_atender -> {asignado, cancelado}
      [] old = asignado -> {en_camino, cancelado}
      [] old = en_camino -> {entregado}
      [] old = entregado -> {cancelado}
      [] OTHER -> {}

\* `valid` without the cancellation of an assigned order
validNoCancelOfAssigned(old) ==
    CASE old = por_atender -> {asignado, cancelado}
      [] old = asignado -> {en_camino}
      [] old = en_camino -> {entregado}
      [] OTHER -> {}

\* the map `valid` of updateOrderStatusHandler; a missing key yields nil
valid(old) ==
    CASE old = por_atender -> {asignado, cancelado}
      [] old = asignado -> {en_camino, cancelado}
      [] old = en_camino -> {entregado}
      [] OTHER -> {}

\* the same SELECT without FOR UPDATE: it waits for nobody
CanLockPlainSelect(p, id) == TRUE

\* SELECT status FROM orders WHERE id=? FOR UPDATE waits while another
\* transaction holds the row: a locked row, or one inserted and not committed.
CanLock(p, id) == lock[id] \in {0, p}

\* SELECT ... FOR UPDATE, then the check of the status read. `legal` maps each
\* status to the handler's test of it, `rejection` to its answer when the test
\* fails.
SelectForUpdate(p, next, legal, rejection) ==
    LET id == req[p].id IN
    \/ /\ CanLock(p, id)
       /\ orders[id] = NoRow
       /\ Abort(p, OrderNotFound)
    \/ /\ CanLock(p, id)
       /\ orders[id] # NoRow
       /\ ~legal[orders[id].status]
       /\ Abort(p, rejection[orders[id].status])
    \/ /\ CanLock(p, id)
       /\ orders[id] # NoRow
       /\ legal[orders[id].status]
       /\ lock' = [lock EXCEPT ![id] = p]
       /\ loc' = [loc EXCEPT ![p].old = orders[id].status]
       /\ Goto(p, next)
       /\ UNCHANGED <<store, nextId, tx, res>>
    \/ Abort(p, StorageError(pc[p]))

\* tx.Exec of a statement that writes `row` over the locked order row
UpdateRow(p, row, next) ==
    \/ /\ tx' = [tx EXCEPT ![p] = [id |-> req[p].id, row |-> row,
                                   items |-> <<>>, hist |-> <<>>]]
       /\ Goto(p, next)
       /\ UNCHANGED <<store, nextId, lock, loc, res>>
    \/ Abort(p, StorageError(pc[p]))

\* an INSERT INTO order_status_history that writes its row twice
InsertHistoryTwice(p, entry, next) ==
    \/ /\ tx' = [tx EXCEPT ![p].hist = Append(Append(@, entry), entry)]
       /\ Goto(p, next)
       /\ UNCHANGED <<store, nextId, lock, loc, res>>
    \/ Abort(p, StorageError(pc[p]))

\* tx.Exec of INSERT INTO order_status_history
InsertHistory(p, entry, next) ==
    \/ /\ tx' = [tx EXCEPT ![p].hist = Append(@, entry)]
       /\ Goto(p, next)
       /\ UNCHANGED <<store, nextId, lock, loc, res>>
    \/ Abort(p, StorageError(pc[p]))

assignOrderBegin(p, id, driverID) ==
    IF driverID = 0
      THEN Reject(p, ValidationError)
      ELSE Begin(p, [op |-> "assignOrder", id |-> id, driver_id |-> driverID],
                 "as_select", [old |-> NULL])

\* the status test of assignOrderHandler letting an assigned order be reassigned
AssignLegalReassign(old) == old \in {por_atender, asignado}

\* if old != "por_atender" { 400 }
AssignLegal(old) == old = por_atender
AssignRejection(old) ==
    [kind |-> "InvalidTransition", msg |-> "solo pedidos 'por_atender' pueden asignarse"]

assignOrderSelect(p) ==
    /\ pc[p] = "as_select"
    /\ SelectForUpdate(p, "as_update",
                       [old \in Statuses |-> AssignLegal(old)],
                       [old \in Statuses |-> AssignRejection(old)])
    /\ UNCHANGED <<catalogue, isolation>>

\* the UPDATE of assignOrderHandler setting the status only
assignOrderUpdateStatusOnly(p) ==
    /\ pc[p] = "as_update"
    /\ UpdateRow(p, [orders[req[p].id] EXCEPT !.status = asignado], "as_history")
    /\ UNCHANGED <<catalogue, isolation>>

\* UPDATE orders SET assigned_driver_id=?, status='asignado' WHERE id=?
assignOrderUpdate(p) ==
    /\ pc[p] = "as_update"
    /\ UpdateRow(p, [orders[req[p].id] EXCEPT !.assigned_driver_id = req[p].driver_id,
                                              !.status = asignado],
                 "as_history")
    /\ UNCHANGED <<catalogue, isolation>>

assignOrderHistory(p) ==
    /\ pc[p] = "as_history"
    /\ InsertHistory(p, [old_status |-> loc[p].old, new_status |-> asignado,
                         changed_by |-> req[p].driver_id], "as_commit")
    /\ UNCHANGED <<catalogue, isolation>>

assignOrderCommit(p) ==
    /\ pc[p] = "as_commit"
    /\ \/ CommitAndRespond(p, Ok)
       \/ Abort(p, StorageError(pc[p]))
    /\ UNCHANGED <<catalogue, isolation>>

updateOrderStatusBegin(p, id, newStatus, changedBy) ==
    IF newStatus = "" \/ changedBy = 0
      THEN Reject(p, ValidationError)
      ELSE Begin(p, [op |-> "updateOrderStatus", id |-> id, new_status |-> newStatus,
                     changed_by |-> changedBy],
                 "us_select", [old |-> NULL])

updateOrderStatusSelect(p) ==
    /\ pc[p] = "us_select"
    /\ LET allowed == [old \in Statuses |-> req[p].new_status \in valid(old)]
           invalida == [old \in Statuses |->
                          [kind |-> "InvalidTransition", old |-> old,
                           new |-> req[p].new_status]]
       IN SelectForUpdate(p, "us_update", allowed, invalida)
    /\ UNCHANGED <<catalogue, isolation>>

\* the UPDATE of updateOrderStatusHandler with delivered_at=NOW() for every
\* target
updateOrderStatusUpdateAlwaysStamps(p) ==
    /\ pc[p] = "us_update"
    /\ UpdateRow(p, [orders[req[p].id] EXCEPT !.status = req[p].new_status,
                                              !.delivered_at = "NOW"],
                 "us_history")
    /\ UNCHANGED <<catalogue, isolation>>

\* the UPDATE of updateOrderStatusHandler clearing assigned_driver_id when the
\* order is cancelled
updateOrderStatusUpdateClearsDriver(p) ==
    /\ pc[p] = "us_update"
    /\ UpdateRow(p, IF req[p].new_status = entregado
                      THEN [orders[req[p].id] EXCEPT !.status = req[p].new_status,
                                                     !.delivered_at = "NOW"]
                      ELSE IF req[p].new_status = cancelado
                        THEN [orders[req[p].id] EXCEPT !.status = req[p].new_status,
                                                       !.assigned_driver_id = NoDriver]
                        ELSE [orders[req[p].id] EXCEPT !.status = req[p].new_status],
                 "us_history")
    /\ UNCHANGED <<catalogue, isolation>>

\* UPDATE orders SET status=? [, delivered_at=NOW()] WHERE id=?
updateOrderStatusUpdate(p) ==
    /\ pc[p] = "us_update"
    /\ UpdateRow(p, IF req[p].new_status = entregado
                      THEN [orders[req[p].id] EXCEPT !.status = req[p].new_status,
                                                     !.delivered_at = "NOW"]
                      ELSE [orders[req[p].id] EXCEPT !.status = req[p].new_status],
                 "us_history")
    /\ UNCHANGED <<catalogue, isolation>>

updateOrderStatusHistory(p) ==
    /\ pc[p] = "us_history"
    /\ InsertHistory(p, [old_status |-> loc[p].old, new_status |-> req[p].new_status,
                         changed_by |-> req[p].changed_by], "us_commit")
    /\ UNCHANGED <<catalogue, isolation>>

updateOrderStatusCommit(p) ==
    /\ pc[p] = "us_commit"
    /\ \/ CommitAndRespond(p, Ok)
       \/ Abort(p, StorageError(pc[p]))
    /\ UNCHANGED <<catalogue, isolation>>

\* a history listing ORDER BY id DESC
HistoryRowsNewestFirst(id) ==
    [k \in DOMAIN history[id] |-> history[id][Len(history[id]) + 1 - k]]

\* SELECT ... FROM order_status_history WHERE order_id=? ORDER BY id
HistoryRows(id) == history[id]

listOrderHistoryHandler(p, id) ==
    /\ pc[p] = "idle"
    /\ pc' = [pc EXCEPT ![p] = "done"]
    /\ \/ res' = [res EXCEPT ![p] = [kind |-> "ok", rows |-> HistoryRows(id)]]
       \/ res' = [res EXCEPT ![p] = StorageError("history")]
    /\ UNCHANGED <<catalogue, store, nextId, lock, isolation, req, loc, tx>>

----------------------------------------------------------------------------
(* Products and customer prices: handlers without a transaction *)

\* an update of the product that also reprices the items ordered so far
updateProductHandlerRepricing(id, price, active) ==
    /\ id \in DOMAIN products
    /\ products' = [products EXCEPT ![id] = [price |-> price, is_active |-> active]]
    /\ items' = [o \in OrderIds |->
                  [k \in DOMAIN items[o] |->
                      IF items[o][k].product_id = id
                        THEN [items[o][k] EXCEPT !.unit_price = price]
                        ELSE items[o][k]]]
    /\ UNCHANGED <<cpp, orders, history, nextId, lock, isolation, pc, req, loc, tx, res>>

\* UPDATE products SET name=?, capacity_liters=?, price=?, is_active=? WHERE id=?
updateProductHandler(id, price, active) ==
    /\ id \in DOMAIN products
    /\ products' = [products EXCEPT ![id] = [price |-> price, is_active |-> active]]
    /\ UNCHANGED <<cpp, store, nextId, lock, isolation, pc, req, loc, tx, res>>

\* UPDATE products SET is_active=FALSE WHERE id=?
deleteProductHandler(id) ==
    /\ id \in DOMAIN products
    /\ products' = [products EXCEPT ![id].is_active = FALSE]
    /\ UNCHANGED <<cpp, store, nextId, lock, isolation, pc, req, loc, tx, res>>

\* an upsert with ON DUPLICATE KEY UPDATE price=price+VALUES(price)
UpsertRowAddsPrice(c, row) ==
    IF \E r \in c : r.customer_id = row.customer_id /\ r.product_id = row.product_id
      THEN {IF r.customer_id = row.customer_id /\ r.product_id = row.product_id
              THEN [r EXCEPT !.price = @ + row.price, !.is_active = row.is_active]
              ELSE r : r \in c}
      ELSE c \cup {row}

\* an upsert that adds a row whenever none is equal to the new one
UpsertRowNoKey(c, row) == c \cup {row}

\* INSERT ... ON DUPLICATE KEY UPDATE price=VALUES(price), is_active=VALUES(is_active)
UpsertRow(c, row) ==
    IF \E r \in c : r.customer_id = row.customer_id /\ r.product_id = row.product_id
      THEN {IF r.customer_id = row.customer_id /\ r.product_id = row.product_id
              THEN [r EXCEPT !.price = row.price, !.is_active = row.is_active]
              ELSE r : r \in c}
      ELSE c \cup {row}

\* the rows of table users: customers and drivers alike
Users == Customers \cup Drivers

\* Values of the query parameters customer_id and product_id; "" is a
\* parameter left out.
Params == {"", "1", "2", "3"}

\* the number MySQL compares a string parameter as
SqlNumber(s) ==
    CASE s = "1" -> 1
      [] s = "2" -> 2
      [] s = "3" -> 3
      [] OTHER -> 0

\* Values of the optional field is_active (*bool): <<>> is a field left out.
IsActiveValues == {<<>>, <<TRUE>>, <<FALSE>>}

\* a handler that stores every override as active
ActiveAlways(isActive) == TRUE

\* active := true; if req.IsActive != nil { active = *req.IsActive }
ActiveOrDefault(isActive) == IF isActive = <<>> THEN TRUE ELSE isActive[1]

ProductNotFound == [kind |-> "ProductNotFound"]
CustomerNotFound == [kind |-> "CustomerNotFound"]

\* c.JSON(...) of a handler that works without a transaction, after it wrote
\* `c` to customer_product_prices
AnswerWith(p, r, c) ==
    /\ pc[p] = "idle"
    /\ pc' = [pc EXCEPT ![p] = "done"]
    /\ res' = [res EXCEPT ![p] = r]
    /\ cpp' = c
    /\ UNCHANGED <<products, store, nextId, lock, isolation, req, loc, tx>>

\* the handler without its test that the customer exists
upsertCustomerPriceHandlerAnyCustomer(p, customerID, productID, price, isActive) ==
    IF customerID = 0 \/ productID = 0
      THEN AnswerWith(p, ValidationError, cpp)
      ELSE \/ /\ productID \notin DOMAIN products
              /\ AnswerWith(p, ProductNotFound, cpp)
           \/ /\ productID \in DOMAIN products
              /\ AnswerWith(p, Ok,
                    UpsertRow(cpp, [customer_id |-> customerID, product_id |-> productID,
                                    price |-> price,
                                    is_active |-> ActiveOrDefault(isActive)]))
           \/ AnswerWith(p, ProductNotFound, cpp)
           \/ /\ productID \in DOMAIN products
              /\ AnswerWith(p, StorageError("upsert"), cpp)

upsertCustomerPriceHandler(p, customerID, productID, price, isActive) ==
    IF customerID = 0 \/ productID = 0
      THEN AnswerWith(p, ValidationError, cpp)
      ELSE \/ /\ productID \notin DOMAIN products
              /\ AnswerWith(p, ProductNotFound, cpp)
           \/ /\ productID \in DOMAIN products
              /\ customerID \notin Users
              /\ AnswerWith(p, CustomerNotFound, cpp)
           \/ /\ productID \in DOMAIN products
              /\ customerID \in Users
              /\ AnswerWith(p, Ok,
                    UpsertRow(cpp, [customer_id |-> customerID, product_id |-> productID,
                                    price |-> price,
                                    is_active |-> ActiveOrDefault(isActive)]))
           \* err != nil of the first, of the second and of the third statement
           \/ AnswerWith(p, ProductNotFound, cpp)
           \/ /\ productID \in DOMAIN products
              /\ AnswerWith(p, CustomerNotFound, cpp)
           \/ /\ productID \in DOMAIN products
              /\ customerID \in Users
              /\ AnswerWith(p, StorageError("upsert"), cpp)

\* a DELETE that empties the customer's overrides
DeleteRowsOfCustomer(c, customerID, productID) ==
    {r \in c : r.customer_id # SqlNumber(customerID)}

\* DELETE FROM customer_product_prices WHERE customer_id=? AND product_id=?
DeleteRows(c, customerID, productID) ==
    {r \in c : ~(r.customer_id = SqlNumber(customerID)
                 /\ r.product_id = SqlNumber(productID))}

deleteCustomerPriceHandler(p, customerID, productID) ==
    IF customerID = "" \/ productID = ""
      THEN AnswerWith(p, ValidationError, cpp)
      ELSE \/ AnswerWith(p, Ok, DeleteRows(cpp, customerID, productID))
           \/ AnswerWith(p, StorageError("delete"), cpp)

\* the listing query without its test of p.is_active
ListedRowsForInactiveToo(view, customerID) ==
    UNION { { [id |-> id, price |-> price, is_active |-> view.products[id].is_active] :
                price \in CoalescePrices(view, SqlNumber(customerID), {id}) }
            : id \in DOMAIN view.products }

\* the rows of the listing query with customer_id: SELECT p.id,
\* COALESCE(cpp.price, p.price), p.is_active ... WHERE p.is_active = TRUE
ListedRowsFor(view, customerID) ==
    UNION { { [id |-> id, price |-> price, is_active |-> view.products[id].is_active] :
                price \in CoalescePrices(view, SqlNumber(customerID), {id}) }
            : id \in {i \in DOMAIN view.products : view.products[i].is_active} }

\* the rows of the listing query without customer_id
ListedRows(view) ==
    { [id |-> id, price |-> view.products[id].price,
       is_active |-> view.products[id].is_active] :
        id \in {i \in DOMAIN view.products : view.products[i].is_active} }

listProductsHandler(p, customerID) ==
    \/ AnswerWith(p, [kind |-> "ok",
                      rows |-> IF customerID # ""
                                 THEN ListedRowsFor(Committed, customerID)
                                 ELSE ListedRows(Committed)],
                  cpp)
    \/ AnswerWith(p, StorageError("list"), cpp)

----------------------------------------------------------------------------
(* The system *)

\* The worker takes the next request.
Return(p) ==
    /\ pc[p] = "done"
    /\ pc' = [pc EXCEPT ![p] = "idle"]
    /\ res' = [res EXCEPT ![p] = NoRes]
    /\ UNCHANGED <<catalogue, store, nextId, lock, isolation, req, loc, tx>>

EmptyStore ==
    /\ orders = [id \in OrderIds |-> NoRow]
    /\ items = [id \in OrderIds |-> <<>>]
    /\ history = [id \in OrderIds |-> <<>>]
    /\ nextId = 1
    /\ lock = [id \in OrderIds |-> 0]

IdleWorkers ==
    /\ pc = [p \in Procs |-> "idle"]
    /\ req = [p \in Procs |-> NoReq]
    /\ loc = [p \in Procs |-> NoLoc]
    /\ tx = [p \in Procs |-> NoTx]
    /\ res = [p \in Procs |-> NoRes]

Init ==
    /\ products = [id \in ProductIds |-> [price |-> 5, is_active |-> TRUE]]
    /\ cpp = {}
    /\ EmptyStore
    /\ isolation \in {"REPEATABLE-READ", "READ-COMMITTED"}
    /\ IdleWorkers

createOrder(p, customers, addresses, itemLists) ==
    \/ \E c \in customers, a \in addresses, l \in itemLists :
          createOrderBegin(p, c, a, l)
    \/ createOrderSubtotal(p)
    \/ createOrderInsert(p)
    \/ createOrderItem(p)
    \/ createOrderHistory(p)
    \/ createOrderCommit(p)

assignOrder(p, drivers) ==
    \/ \E id \in DOMAIN orders, d \in drivers : assignOrderBegin(p, id, d)
    \/ assignOrderSelect(p)
    \/ assignOrderUpdate(p)
    \/ assignOrderHistory(p)
    \/ assignOrderCommit(p)

updateOrderStatus(p, targets) ==
    \/ \E id \in DOMAIN orders, s \in targets : updateOrderStatusBegin(p, id, s, 1)
    \/ updateOrderStatusSelect(p)
    \/ updateOrderStatusUpdate(p)
    \/ updateOrderStatusHistory(p)
    \/ updateOrderStatusCommit(p)

Administration ==
    \/ \E id \in ProductIds, price \in BasePrices, active \in BOOLEAN :
          updateProductHandler(id, price, active)
    \/ \E id \in ProductIds : deleteProductHandler(id)

\* the customer price routes and the product listing, served by worker p
customerPrices(p, customers, productIDs, prices, params) ==
    \/ \E c \in customers, id \in productIDs, price \in prices, a \in IsActiveValues :
          upsertCustomerPriceHandler(p, c, id, price, a)
    \/ \E c \in params, id \in params : deleteCustomerPriceHandler(p, c, id)
    \/ \E c \in params : listProductsHandler(p, c)

Next ==
    \/ \E p \in Procs : createOrder(p, Customers \cup {0}, {1}, ItemLists)
    \/ \E p \in Procs :
          customerPrices(p, Users \cup {0, 3}, ProductIds \cup {0, 3}, OverridePrices, Params)
    \/ \E p \in Procs : assignOrder(p, Drivers \cup {0})
    \/ \E p \in Procs : updateOrderStatus(p, Targets)
    \/ \E p \in Procs : Return(p)
    \/ Administration

Spec == Init /\ [][Next]_vars

\* The order engine on a fixed catalogue: concurrent requests, no
\* administration.
InitOrders ==
    /\ products = (1 :> [price |-> 5, is_active |-> TRUE]) @@
                  (2 :> [price |-> 7, is_active |-> FALSE])
    /\ cpp = {[customer_id |-> 1, product_id |-> 1, price |-> 3, is_active |-> TRUE]}
    /\ EmptyStore
    /\ isolation = "REPEATABLE-READ"
    /\ IdleWorkers

NextOrders ==
    \/ \E p \in Procs : createOrder(p, Customers \cup {0}, {1}, ItemLists)
    \/ \E p \in Procs : assignOrder(p, Drivers \cup {0})
    \/ \E p \in Procs : updateOrderStatus(p, Targets)
    \/ \E p \in Procs : Return(p)

SpecOrders == InitOrders /\ [][NextOrders]_vars

\* Pricing: one request worker racing with the administration of product 1,
\* of its override for customer 1, and with the deactivation of product 2.
\* One order is placed: the ids below MaxOrders went to inserts rolled back.
InitPricing ==
    /\ products = [id \in ProductIds |-> [price |-> 5, is_active |-> TRUE]]
    /\ cpp = {}
    /\ orders = [id \in OrderIds |-> NoRow]
    /\ items = [id \in OrderIds |-> <<>>]
    /\ history = [id \in OrderIds |-> <<>>]
    /\ nextId = MaxOrders
    /\ lock = [id \in OrderIds |-> 0]
    /\ isolation \in {"REPEATABLE-READ", "READ-COMMITTED"}
    /\ IdleWorkers

NextPricing ==
    \/ createOrder(1, Customers, {1}, ItemLists)
    \/ assignOrder(1, {1})
    \/ updateOrderStatus(1, {en_camino, entregado, cancelado})
    \/ Return(1)
    \/ \E price \in BasePrices, active \in BOOLEAN : updateProductHandler(1, price, active)
    \/ \E id \in ProductIds : deleteProductHandler(id)
    \/ \E active \in BOOLEAN : upsertCustomerPriceHandler(2, 1, 1, 3, <<active>>)
    \/ deleteCustomerPriceHandler(2, "1", "1")
    \/ Return(2)

SpecPricing == InitPricing /\ [][NextPricing]_vars

\* Two assignOrder requests for different drivers, both past db.Begin(), on
\* one order that createOrder left "por_atender".
InitAssignRace ==
    /\ products = (1 :> [price |-> 5, is_active |-> TRUE]) @@
                  (2 :> [price |-> 7, is_active |-> FALSE])
    /\ cpp = {}
    /\ \E id \in OrderIds, q \in {1, 2} :
          /\ orders = [i \in OrderIds |-> IF i = id THEN NewOrderRow(1, 5 * q) ELSE NoRow]
          /\ items = [i \in OrderIds |->
                        IF i = id THEN <<[product_id |-> 1, qty |-> q, unit_price |-> 5]>>
                        ELSE <<>>]
          /\ history = [i \in OrderIds |-> IF i = id THEN <<InitialHistory(1)>> ELSE <<>>]
          /\ \E d \in [Procs -> Drivers] :
                /\ \A p, r \in Procs : p # r => d[p] # d[r]
                /\ req = [p \in Procs |->
                            [op |-> "assignOrder", id |-> id, driver_id |-> d[p]]]
    /\ nextId = MaxOrders + 1
    /\ lock = [id \in OrderIds |-> 0]
    /\ isolation = "REPEATABLE-READ"
    /\ pc = [p \in Procs |-> "as_select"]
    /\ loc = [p \in Procs |-> [old |-> NULL]]
    /\ tx = [p \in Procs |-> NoTx]
    /\ res = [p \in Procs |-> NoRes]

NextAssignRace ==
    \/ \E p \in Procs : assignOrderSelect(p)
    \/ \E p \in Procs : assignOrderUpdate(p)
    \/ \E p \in Procs : assignOrderHistory(p)
    \/ \E p \in Procs : assignOrderCommit(p)

SpecAssignRace == InitAssignRace /\ [][NextAssignRace]_vars

\* Price resolution: worker 2 serves the customer price routes and the
\* listing, for the keys of customer 1 and for ids that do not exist, while
\* worker 1 places an order; each product starts active or inactive.
ResolverPrices == {3, 4}

InitResolver ==
    /\ products \in {[id \in ProductIds |-> [price |-> IF id = 1 THEN 5 ELSE 7,
                                              is_active |-> a[id]]] :
                        a \in [ProductIds -> BOOLEAN]}
    /\ cpp = {}
    /\ EmptyStore
    /\ isolation = "REPEATABLE-READ"
    /\ IdleWorkers

NextResolver ==
    \/ customerPrices(2, {0, 1, 3}, ProductIds \cup {0, 3}, ResolverPrices, Params)
    \/ createOrder(1, Customers, {1}, ItemLists)
    \/ Return(1)
    \/ Return(2)

SpecResolver == InitResolver /\ [][NextResolver]_vars

\* The override store: both workers serve the customer price routes and the
\* listing for customer 1 concurrently; no order is placed.
NextOverrides ==
    \/ \E p \in Procs :
          customerPrices(p, {0, 1, 3}, ProductIds \cup {0, 3}, ResolverPrices, Params)
    \/ \E p \in Procs : Return(p)

SpecOverrides == InitResolver /\ [][NextOverrides]_vars

\* Transitions on two orders that createOrder left "por_atender": both
\* workers serve assignOrder and updateOrderStatus requests on either order.
RaceOrders == {1, 2}

InitTransitions ==
    /\ products = (1 :> [price |-> 5, is_active |-> TRUE]) @@
                  (2 :> [price |-> 7, is_active |-> FALSE])
    /\ cpp = {}
    /\ orders = [id \in RaceOrders |-> NewOrderRow(1, 5)]
    /\ items = [id \in RaceOrders |-> <<[product_id |-> 1, qty |-> 1, unit_price |-> 5]>>]
    /\ history = [id \in RaceOrders |-> <<InitialHistory(1)>>]
    /\ nextId = Cardinality(RaceOrders) + 1
    /\ lock = [id \in RaceOrders |-> 0]
    /\ isolation = "REPEATABLE-READ"
    /\ IdleWorkers

NextTransitions ==
    \/ \E p \in Procs : assignOrder(p, {1})
    \/ \E p \in Procs : updateOrderStatus(p, {en_camino, cancelado})
    \/ \E p \in Procs : Return(p)

SpecTransitions == InitTransitions /\ [][NextTransitions]_vars

\* the SELECT ... FOR UPDATE of worker p's request, not failed by the store
Selects(p) ==
    /\ assignOrderSelect(p) \/ updateOrderStatusSelect(p)
    /\ res'[p].kind # "StorageError"

\* a later statement of worker p's request or its commit, not failed by the
\* store
Runs(p) ==
    /\ \/ assignOrderUpdate(p) \/ assignOrderHistory(p) \/ assignOrderCommit(p)
       \/ updateOrderStatusUpdate(p) \/ updateOrderStatusHistory(p)
       \/ updateOrderStatusCommit(p)
    /\ res'[p].kind # "StorageError"

\* Every request's goroutine keeps running and the store executes its
\* statements (weak fairness); InnoDB queues the waiters of a row lock and
\* grants it in turn, so a request that can take the lock again and again
\* does take it (strong fairness).
FairTransitions ==
    \A p \in Procs : WF_vars(Runs(p)) /\ SF_vars(Selects(p))

SpecTransitionsFair == SpecTransitions /\ FairTransitions

\* The order engine with the history listing: orders are created, assigned,
\* moved on and cancelled by the two workers while histories are read.
NextHistory ==
    \/ \E p \in Procs : createOrder(p, Customers, {1}, {<<Item(1, 2)>>})
    \/ \E p \in Procs : assignOrder(p, {1})
    \/ \E p \in Procs : updateOrderStatus(p, {en_camino, entregado, cancelado})
    \/ \E p \in Procs, id \in DOMAIN orders : listOrderHistoryHandler(p, id)
    \/ \E p \in Procs : Return(p)

SpecHistory == InitOrders /\ [][NextHistory]_vars

\* Item lists with quantities that are zero or negative
QtyItemLists ==
    { <<>>,
      <<Item(1, 1)>>,
      <<Item(1, 0)>>,
      <<Item(1, 2), Item(1, -1)>> }

\* Order creation alone: requests with and without customer, address and
\* items, and with quantities of either sign.
NextCreate ==
    \/ \E p \in Procs : createOrder(p, Customers \cup {0}, {0, 1}, QtyItemLists)
    \/ \E p \in Procs : Return(p)

SpecCreate == InitOrders /\ [][NextCreate]_vars

----------------------------------------------------------------------------
(* The transition table of the status machine, as the specification states it *)

Edges ==
    { <<por_atender, asignado>>, <<por_atender, cancelado>>,
      <<asignado, en_camino>>, <<asignado, cancelado>>,
      <<en_camino, entregado>> }

Terminal == {entregado, cancelado}

Last(seq) == seq[Len(seq)]

\* worker p leaves its SELECT ... FOR UPDATE in this step, having read the row
ReadsStatus(p, at) ==
    /\ pc[p] = at
    /\ pc'[p] # at
    /\ orders[req[p].id] # NoRow
    /\ res'[p].kind # "StorageError"

\* C1: every stored status is one of the five statuses, every change of a
\* stored status follows an edge of the transition table, and an
\* updateOrderStatus whose target is no successor of the status it reads --
\* a name outside the table included -- is answered InvalidTransition and
\* writes nothing.
C1_StatusFollowsTable ==
    /\ [](\A id \in OrderIds : orders[id] # NoRow => orders[id].status \in Statuses)
    /\ [][\A id \in OrderIds :
            /\ orders[id] = NoRow /\ orders'[id] # NoRow
                 => orders'[id].status = por_atender
            /\ orders[id] # NoRow
                 => /\ orders'[id] # NoRow
                    /\ orders'[id].status # orders[id].status
                         => <<orders[id].status, orders'[id].status>> \in Edges]_vars
    /\ [][\A p \in Procs :
            ReadsStatus(p, "us_select")
            /\ <<orders[req[p].id].status, req[p].new_status>> \notin Edges
              => /\ res'[p].kind = "InvalidTransition"
                 /\ pc'[p] = "done"
                 /\ tx'[p] = NoTx
                 /\ store' = store]_vars

\* an order went through the whole table while a request was turned down
C1_Witness ==
    \E id \in OrderIds, p \in Procs :
        /\ orders[id] # NoRow
        /\ orders[id].status = entregado
        /\ Len(history[id]) = 4
        /\ res[p] = [kind |-> "InvalidTransition", old |-> entregado, new |-> "devuelto"]

\* C2: of two concurrent assignOrder requests on one "por_atender" order
\* never both succeed; when the store fails neither, exactly one succeeds and
\* the other is turned down as an invalid transition, the order ends
\* "asignado" with one history entry beyond the initial one; and the commit
\* of the successful request stores that request's driver.
C2_AssignRace ==
    /\ [](\A p, q \in Procs :
            p # q /\ pc[p] = "done" /\ pc[q] = "done"
              => /\ ~(res[p].kind = "ok" /\ res[q].kind = "ok")
                 /\ res[p].kind # "StorageError" /\ res[q].kind # "StorageError"
                      => /\ {res[p].kind, res[q].kind} = {"ok", "InvalidTransition"}
                         /\ \A id \in OrderIds :
                              orders[id] # NoRow
                                => /\ orders[id].status = asignado
                                   /\ orders[id].assigned_driver_id \in Drivers
                                   /\ Len(history[id]) = 2
                                   /\ history[id][2].changed_by
                                        = orders[id].assigned_driver_id)
    /\ [][\A p \in Procs :
            pc[p] = "as_commit" /\ res'[p].kind = "ok"
              => /\ orders'[req[p].id].assigned_driver_id = req[p].driver_id
                 /\ orders'[req[p].id].status = asignado
                 /\ \A q \in Procs : res[q].kind # "ok"]_vars

\* both requests answered, the first worker's turned down
C2_Witness ==
    /\ pc[1] = "done" /\ pc[2] = "done"
    /\ res[1].kind = "InvalidTransition"
    /\ res[2].kind = "ok"

\* C3: a transition request validates the status it read under the row lock,
\* and that status is still the committed one when the request commits: while
\* it holds the row no other request on the order has read or written it. So
\* no two history entries of an order carry the same old status.
C3_NoStaleTransition ==
    /\ [](\A id \in OrderIds : \A i, j \in DOMAIN history[id] :
            i # j => history[id][i].old_status # history[id][j].old_status)
    /\ [](\A p, q \in Procs :
            ( /\ p # q
              /\ pc[p] \in {"as_update", "as_history", "as_commit",
                            "us_update", "us_history", "us_commit"}
              /\ pc[q] \notin {"idle", "done"}
              /\ req[q].op # "createOrder"
              /\ req[q].id = req[p].id )
              => /\ pc[q] \in {"as_select", "us_select"}
                 /\ loc[p].old = orders[req[p].id].status)
    /\ [][\A p \in Procs :
            pc[p] \in {"as_commit", "us_commit"} /\ res'[p].kind = "ok"
              => /\ loc[p].old = orders[req[p].id].status
                 /\ Last(history'[req[p].id]).old_status = orders[req[p].id].status
                 /\ Last(history'[req[p].id]).new_status = orders'[req[p].id].status]_vars

\* a request is about to commit its transition while another request on the
\* same order waits for the row
C3_Witness ==
    \E p, q \in Procs :
        /\ pc[p] = "us_commit"
        /\ pc[q] = "as_select"
        /\ req[q].id = req[p].id
        /\ lock[req[p].id] = p
        /\ Len(history[req[p].id]) = 1

----------------------------------------------------------------------------
(* Pricing *)

RECURSIVE SumLines(_)
\* the sum over the order_items rows of qty * unit_price
SumLines(rows) ==
    IF rows = <<>> THEN 0
    ELSE rows[1].qty * rows[1].unit_price + SumLines(Tail(rows))

\* C4: the stored subtotal of every order equals the sum over its items of
\* qty * unit_price.
C4_SubtotalIsSumOfLines ==
    \A id \in OrderIds :
        orders[id] # NoRow => orders[id].subtotal = SumLines(items[id])

\* What holds of the code: the same, for the servers whose transactions read
\* from one snapshot (REPEATABLE READ, the default of MySQL).
C4_SubtotalIsSumOfLinesRepeatableRead ==
    isolation = "REPEATABLE-READ" => C4_SubtotalIsSumOfLines

\* a product that cannot be ordered: it does not exist, or it is inactive
NotOrderable(view, productID) ==
    \/ productID \notin DOMAIN view.products
    \/ ~view.products[productID].is_active

\* worker p executes a statement of its handler in this step
StepOf(p) == pc'[p] # pc[p] \/ loc'[p] # loc[p]

\* C5: createOrder is all or nothing when price resolution fails: when the
\* product of the item being priced, at whatever position, does not exist or
\* is inactive, the request fails with ProductNotFound, and a request that
\* fails so has written nothing and leaves no order, item or history row; no
\* item or history row exists without its order.
C5_CreateAllOrNothing ==
    /\ [](\A id \in OrderIds :
            orders[id] = NoRow => items[id] = <<>> /\ history[id] = <<>>)
    /\ [][\A p \in Procs :
            /\ pc[p] = "co_subtotal" /\ StepOf(p)
               /\ NotOrderable(View(p), req[p].items[loc[p].i].product_id)
                 => res'[p] = [kind |-> "ProductNotFound",
                               product_id |-> req[p].items[loc[p].i].product_id]
            /\ res'[p].kind = "ProductNotFound" /\ res[p].kind # "ProductNotFound"
                 => /\ pc'[p] = "done"
                    /\ tx[p] = NoTx /\ tx'[p] = NoTx
                    /\ \A id \in OrderIds : lock'[id] # p
                    /\ nextId' = nextId
                    /\ store' = store]_vars

\* a request failed on its second item, the product that does not exist
C5_Witness ==
    \E p \in Procs :
        /\ pc[p] = "done"
        /\ res[p] = [kind |-> "ProductNotFound", product_id |-> 3]

\* the price the specification resolves for customer c and product id
EffectivePrice(view, c, id) ==
    IF \E r \in view.cpp : r.customer_id = c /\ r.product_id = id /\ r.is_active
      THEN (CHOOSE r \in view.cpp :
                r.customer_id = c /\ r.product_id = id /\ r.is_active).price
      ELSE view.products[id].price

\* C6: the unit price createOrder writes for an item of an active product is
\* the price of the customer's override for the product when the transaction
\* sees an active one, and the product's base price when it sees none or an
\* inactive one.
C6_UnitPriceIsEffectivePrice ==
    [][\A p \in Procs :
         pc[p] = "co_items" /\ Len(tx'[p].items) = Len(tx[p].items) + 1
           => LET it == Last(tx'[p].items)
                  given == req[p].items[loc[p].i]
              IN /\ it.product_id = given.product_id
                 /\ it.qty = given.qty
                 /\ View(p).products[it.product_id].is_active
                      => it.unit_price
                           = EffectivePrice(View(p), req[p].customer_id, it.product_id)]_vars

\* an order placed with the override price for product 1 and the base price
\* for product 2
C6_Witness ==
    \E id \in OrderIds :
        /\ orders[id] # NoRow
        /\ Len(items[id]) = 2
        /\ items[id][1].unit_price = 3
        /\ items[id][2].unit_price = 5
        /\ orders[id].subtotal = 13

\* C7: the items of an order and its subtotal never change once the order is
\* committed, whatever happens later to products, overrides or the order's
\* status.
C7_ItemsAndSubtotalFrozen ==
    [][\A id \in OrderIds :
         orders[id] # NoRow
           => /\ orders'[id] # NoRow
              /\ items'[id] = items[id]
              /\ orders'[id].subtotal = orders[id].subtotal
              /\ orders'[id].customer_id = orders[id].customer_id]_vars

\* a delivered order that keeps the override price 3 of its creation, after
\* the override was removed and the base price raised to 7
C7_Witness ==
    \E id \in OrderIds :
        /\ orders[id] # NoRow
        /\ orders[id].status = entregado
        /\ items[id] = <<[product_id |-> 1, qty |-> 2, unit_price |-> 3]>>
        /\ orders[id].subtotal = 6
        /\ cpp = {}
        /\ products[1].price = 7

----------------------------------------------------------------------------
(* Rejections and failures *)

\* C8: an order that is "entregado" or "cancelado" never changes again: no
\* request holds its row, and every assignOrder and updateOrderStatus that
\* reads it, whatever the target, is answered InvalidTransition and writes
\* nothing.
C8_TerminalIsFinal ==
    /\ [](\A id \in OrderIds :
            orders[id] # NoRow /\ orders[id].status \in Terminal => lock[id] = 0)
    /\ [][\A id \in OrderIds :
            orders[id] # NoRow /\ orders[id].status \in Terminal
              => orders'[id] = orders[id] /\ history'[id] = history[id]]_vars
    /\ [][\A p \in Procs :
            (ReadsStatus(p, "as_select") \/ ReadsStatus(p, "us_select"))
            /\ orders[req[p].id].status \in Terminal
              => /\ res'[p].kind = "InvalidTransition"
                 /\ pc'[p] = "done"
                 /\ tx'[p] = NoTx
                 /\ store' = store]_vars

\* a cancelled order, and a request to send it on its way turned down
C8_Witness ==
    \E id \in OrderIds, p \in Procs :
        /\ orders[id] # NoRow
        /\ orders[id].status = cancelado
        /\ res[p] = [kind |-> "InvalidTransition", old |-> cancelado, new |-> en_camino]

\* C9: updateOrderStatus answers InvalidTransition exactly when the target is
\* no successor of the status it read; the answer names that status and the
\* target, and the order's row (status, driver, delivered time) and its
\* history are left as they were.
C9_RejectionNamesBothAndWritesNothing ==
    [][\A p \in Procs :
         ReadsStatus(p, "us_select")
           => LET old == orders[req[p].id].status
                  new == req[p].new_status
              IN /\ <<old, new>> \in Edges
                      => pc'[p] = "us_update" /\ res'[p] = NoRes
                 /\ <<old, new>> \notin Edges
                      => /\ res'[p] = [kind |-> "InvalidTransition",
                                       old |-> old, new |-> new]
                         /\ orders' = orders
                         /\ history' = history
                         /\ items' = items
                         /\ tx'[p] = NoTx]_vars

\* the delivery of an order that is only assigned was turned down
C9_Witness ==
    \E id \in OrderIds, p \in Procs :
        /\ orders[id] # NoRow
        /\ orders[id].status = asignado
        /\ orders[id].delivered_at = NULL
        /\ Len(history[id]) = 2
        /\ res[p] = [kind |-> "InvalidTransition", old |-> asignado, new |-> entregado]

\* C10: a request that ends in a storage failure, at whichever statement or
\* at the commit, persists none of its writes; the store changes only when a
\* request commits, and then with all its writes at once: the order row with
\* its history entry, and for a new order all its items.
C10_AtomicUnderStorageFailure ==
    /\ [](\A id \in OrderIds :
            orders[id] # NoRow
              => /\ history[id] # <<>>
                 /\ Last(history[id]).new_status = orders[id].status)
    /\ [][\A p \in Procs :
            res'[p].kind = "StorageError" /\ res[p].kind # "StorageError"
              => /\ store' = store
                 /\ tx'[p] = NoTx
                 /\ \A id \in OrderIds : lock'[id] # p]_vars
    /\ [][\A id \in OrderIds :
            <<orders'[id], items'[id], history'[id]>> # <<orders[id], items[id], history[id]>>
              => \E p \in Procs :
                    /\ pc[p] \in {"co_commit", "as_commit", "us_commit"}
                    /\ res'[p].kind = "ok"
                    /\ tx[p].id = id
                    /\ orders'[id] # orders[id]
                    /\ Len(history'[id]) = Len(history[id]) + 1
                    /\ Last(history'[id]).new_status = orders'[id].status
                    /\ pc[p] = "co_commit"
                         => /\ orders[id] = NoRow
                            /\ Len(items'[id]) = Len(req[p].items)
                    /\ pc[p] # "co_commit"
                         => /\ items'[id] = items[id]
                            /\ Last(history'[id]).old_status = orders[id].status]_vars

\* the history insert of a status update failed after the UPDATE of the order
C10_Witness ==
    \E id \in OrderIds, p \in Procs :
        /\ res[p] = StorageError("us_history")
        /\ orders[id] # NoRow
        /\ orders[id].status = asignado

----------------------------------------------------------------------------
(* Contracts of the order operations *)

\* worker p leaves its SELECT ... FOR UPDATE in this step, having found no row
ReadsNoRow(p, at) ==
    /\ pc[p] = at
    /\ pc'[p] # at
    /\ orders[req[p].id] = NoRow
    /\ res'[p].kind # "StorageError"

\* C11: an assignOrder naming a driver that reads an order in "por_atender"
\* goes on to its writes, and its commit stores "asignado" and the request's
\* driver and nothing else of the row; one that reads any other status is
\* answered InvalidTransition, one that finds no row OrderNotFound, both
\* leaving the store and the transaction without a write; and only a request
\* that read "por_atender" is answered ok.
C11_AssignContract ==
    [][\A p \in Procs :
         /\ ReadsStatus(p, "as_select") /\ orders[req[p].id].status = por_atender
              => /\ pc'[p] = "as_update"
                 /\ res'[p] = NoRes
                 /\ lock'[req[p].id] = p
         /\ ReadsStatus(p, "as_select") /\ orders[req[p].id].status # por_atender
              => /\ res'[p].kind = "InvalidTransition"
                 /\ pc'[p] = "done"
                 /\ tx'[p] = NoTx
                 /\ store' = store
         /\ ReadsNoRow(p, "as_select")
              => /\ res'[p] = OrderNotFound
                 /\ pc'[p] = "done"
                 /\ tx'[p] = NoTx
                 /\ store' = store
         /\ pc[p] \in {"as_select", "as_update", "as_history", "as_commit"}
            /\ res'[p].kind = "ok"
              => /\ pc[p] = "as_commit"
                 /\ orders[req[p].id] # NoRow
                 /\ orders[req[p].id].status = por_atender
                 /\ orders'[req[p].id]
                      = [orders[req[p].id] EXCEPT !.status = asignado,
                                                  !.assigned_driver_id = req[p].driver_id]
                 /\ req[p].driver_id \in Drivers]_vars

\* one assignment found no order, a later one was accepted for driver 2, and a
\* third was turned down on the assigned order
C11_Witness ==
    \E id \in OrderIds :
        /\ orders[id] # NoRow
        /\ orders[id].status = asignado
        /\ orders[id].assigned_driver_id = 2
        /\ res[1] = OrderNotFound
        /\ res[2] = AssignRejection(asignado)

\* C12: the delivered time of an order, committed or written by a transaction
\* still open, is set if and only if its status is "entregado"; it is set by
\* the commit of an updateOrderStatus to "entregado" and by no other step, and
\* once set it never changes.
C12_DeliveredAtIffDelivered ==
    /\ [](\A id \in OrderIds :
            orders[id] # NoRow
              => (orders[id].delivered_at # NULL <=> orders[id].status = entregado))
    /\ [](\A p \in Procs :
            tx[p].row # NoRow
              => (tx[p].row.delivered_at # NULL <=> tx[p].row.status = entregado))
    /\ [][\A id \in OrderIds :
            /\ orders[id] = NoRow /\ orders'[id] # NoRow
                 => orders'[id].delivered_at = NULL
            /\ orders[id] # NoRow /\ orders'[id].delivered_at # orders[id].delivered_at
                 => /\ orders[id].delivered_at = NULL
                    /\ orders'[id].status = entregado
                    /\ \E p \in Procs :
                          /\ pc[p] = "us_commit"
                          /\ req[p].id = id
                          /\ req[p].new_status = entregado
                          /\ res'[p].kind = "ok"]_vars

\* a delivered order carries its delivered time
C12_Witness ==
    \E id \in OrderIds :
        /\ orders[id] # NoRow
        /\ orders[id].status = entregado
        /\ orders[id].delivered_at = "NOW"
        /\ Last(history[id]).old_status = en_camino

\* the operation of worker p ends in this step
Answered(p) == pc[p] # "done" /\ pc'[p] = "done"

\* C13: the history of an order only grows, one entry at a time and at its
\* end: a step that changes it is the commit of one accepted createOrder,
\* assignOrder or updateOrderStatus on that order; every accepted operation
\* appends exactly one entry to its order's history and none to another's,
\* and an operation answered with anything but success appends none. So an
\* order's history has 1 entry after its creation and 1 more for each
\* transition accepted since.
C13_HistoryAppendOnly ==
    /\ [](\A id \in OrderIds :
            orders[id] # NoRow
              => /\ Len(history[id]) >= 1
                 /\ history[id][1] = InitialHistory(orders[id].customer_id))
    /\ [][\A id \in OrderIds :
            history'[id] # history[id]
              => /\ Len(history'[id]) = Len(history[id]) + 1
                 /\ SubSeq(history'[id], 1, Len(history[id])) = history[id]
                 /\ \E p \in Procs :
                       /\ Answered(p)
                       /\ res'[p].kind = "ok"
                       /\ tx[p].id = id
                       /\ \A q \in Procs \ {p} : ~Answered(q)]_vars
    /\ [][\A p \in Procs :
            Answered(p)
              => IF res'[p].kind = "ok"
                   THEN /\ Len(history'[tx[p].id]) = Len(history[tx[p].id]) + 1
                        /\ \A id \in OrderIds \ {tx[p].id} : history'[id] = history[id]
                        /\ pc[p] = "co_commit" => history[tx[p].id] = <<>>
                   ELSE history' = history]_vars

\* an order created, assigned and cancelled has three entries; the request
\* turned down on it afterwards added none
C13_Witness ==
    \E id \in OrderIds, p \in Procs :
        /\ orders[id] # NoRow
        /\ orders[id].status = cancelado
        /\ Len(history[id]) = 3
        /\ history[id][3].old_status = asignado
        /\ res[p].kind = "InvalidTransition"

----------------------------------------------------------------------------
(* Price resolution and the override store *)

\* the prices the listing shows customer c for product id
ListedPrices(view, c, id) == {r.price : r \in {x \in ListedRowsFor(view, c) : x.id = id}}

\* C14: in every state of the store, for every customer and product, the
\* listing for the customer, the query of the subtotal loop and the query of
\* the item loop yield the same prices: all of them none, or all of them the
\* same one.
C14_CallSitesAgree ==
    \A c \in Params \ {""}, id \in ProductIds \cup {3} :
        /\ ListedPrices(Committed, c, id) = SubtotalPriceRows(Committed, SqlNumber(c), id)
        /\ SubtotalPriceRows(Committed, SqlNumber(c), id)
             = ItemPriceRows(Committed, SqlNumber(c), id)

\* What holds of the code: the three queries agree on every product that is
\* active and on every product that does not exist; for an inactive product
\* the listing and the subtotal loop yield no price, and the item loop yields
\* the override price if an active override exists, else the base price.
C14_CallSitesAgreeOnActiveProducts ==
    \A c \in Params \ {""}, id \in ProductIds \cup {3} :
        /\ ListedPrices(Committed, c, id) = SubtotalPriceRows(Committed, SqlNumber(c), id)
        /\ id \in DOMAIN products /\ products[id].is_active
             => /\ SubtotalPriceRows(Committed, SqlNumber(c), id)
                     = {EffectivePrice(Committed, SqlNumber(c), id)}
                /\ ItemPriceRows(Committed, SqlNumber(c), id)
                     = {EffectivePrice(Committed, SqlNumber(c), id)}
        /\ id \notin DOMAIN products
             => /\ SubtotalPriceRows(Committed, SqlNumber(c), id) = {}
                /\ ItemPriceRows(Committed, SqlNumber(c), id) = {}
        /\ id \in DOMAIN products /\ ~products[id].is_active
             => /\ SubtotalPriceRows(Committed, SqlNumber(c), id) = {}
                /\ ItemPriceRows(Committed, SqlNumber(c), id)
                     = {EffectivePrice(Committed, SqlNumber(c), id)}

\* the row an upsert request submits
UpsertedRow(customerID, productID, price, isActive) ==
    [customer_id |-> customerID, product_id |-> productID, price |-> price,
     is_active |-> ActiveOrDefault(isActive)]

\* the override store and every price resolved from it are the same in c and d
SameResolution(c, d) ==
    /\ c = d
    /\ Cardinality(c) = Cardinality(d)
    /\ \A customerID \in Users, id \in ProductIds :
          /\ ItemPriceRows([products |-> products, cpp |-> c], customerID, id)
               = ItemPriceRows([products |-> products, cpp |-> d], customerID, id)
          /\ SubtotalPriceRows([products |-> products, cpp |-> c], customerID, id)
               = SubtotalPriceRows([products |-> products, cpp |-> d], customerID, id)

\* C15: an upsert repeated with the same customer, product, price and active
\* flag changes nothing: from every store the second application leaves the
\* rows, their number and every resolved price as the first left them, and
\* after every accepted upsert request the same request again would leave
\* the store as it is.
C15_UpsertIdempotent ==
    /\ [](\A c \in Users, id \in ProductIds, price \in ResolverPrices, a \in IsActiveValues :
            LET row == UpsertedRow(c, id, price, a)
            IN SameResolution(UpsertRow(UpsertRow(cpp, row), row), UpsertRow(cpp, row)))
    /\ [][\A p \in Procs :
            pc[p] = "idle" /\ res'[p] = Ok
            => \A c \in Users, id \in ProductIds, price \in ResolverPrices,
                  a \in IsActiveValues :
                  cpp' = UpsertRow(cpp, UpsertedRow(c, id, price, a))
                    => SameResolution(UpsertRow(cpp', UpsertedRow(c, id, price, a)),
                                      cpp')]_vars

\* an accepted upsert left the inactive override 4 beside the override of
\* the other product
C15_Witness ==
    /\ pc[1] = "done"
    /\ res[1] = Ok
    /\ pc[2] = "done"
    /\ res[2] = Ok
    /\ cpp = {UpsertedRow(1, 1, 4, <<FALSE>>), UpsertedRow(1, 2, 3, <<>>)}

\* the rows of c stored under the key (customerID, productID)
RowsOfKey(c, customerID, productID) ==
    {r \in c : r.customer_id = customerID /\ r.product_id = productID}

\* C16: customer_product_prices never holds two rows of one (customer,
\* product) key, however the upserts and deletes of the two workers
\* interleave; a step that changes the table changes the rows of one key
\* only; and an accepted upsert leaves under its key exactly the submitted
\* row, whether or not the key had a row before.
C16_OneRowPerKey ==
    /\ [](\A r, q \in cpp :
            r.customer_id = q.customer_id /\ r.product_id = q.product_id => r = q)
    /\ [][cpp' # cpp
            => \E c \in Users, id \in ProductIds :
                  /\ \A r \in cpp \cup cpp' :
                        ~(r.customer_id = c /\ r.product_id = id)
                          => (r \in cpp <=> r \in cpp')
                  /\ Cardinality(RowsOfKey(cpp', c, id)) <= 1]_vars
    /\ [][\A p \in Procs :
            pc[p] = "idle" /\ res'[p] = Ok
              => \A c \in Users, id \in ProductIds, price \in ResolverPrices,
                    a \in IsActiveValues :
                    upsertCustomerPriceHandler(p, c, id, price, a)
                      => /\ RowsOfKey(cpp', c, id) = {UpsertedRow(c, id, price, a)}
                         /\ cpp' \ RowsOfKey(cpp', c, id) = cpp \ RowsOfKey(cpp, c, id)]_vars

\* both workers had a request accepted and the key of product 1 holds one
\* row, the override 4
C16_Witness ==
    /\ res[1] = Ok
    /\ res[2] = Ok
    /\ cpp = {UpsertedRow(1, 1, 4, <<TRUE>>)}

\* the store after the step
CommittedNext == [products |-> products', cpp |-> cpp']

\* C17: an accepted upsert with active=false on a key that has a row leaves
\* the row in the table, inactive and with the price submitted, and the price
\* resolved for the key is the product's base price; an accepted upsert with
\* active=true on a key that has a row makes the resolved price the
\* submitted override price.  The resolved price is that of the item query,
\* and for an active product also that of the subtotal query and the listing.
C17_SoftToggle ==
    [][\A p \in Procs :
         pc[p] = "idle" /\ res'[p] = Ok
           => \A c \in Users, id \in ProductIds, price \in ResolverPrices :
                /\ upsertCustomerPriceHandler(p, c, id, price, <<FALSE>>)
                   /\ RowsOfKey(cpp, c, id) # {}
                     => /\ RowsOfKey(cpp', c, id)
                             = {[customer_id |-> c, product_id |-> id,
                                 price |-> price, is_active |-> FALSE]}
                        /\ Cardinality(cpp') = Cardinality(cpp)
                        /\ ItemPriceRows(CommittedNext, c, id) = {products[id].price}
                        /\ products[id].is_active
                             => /\ SubtotalPriceRows(CommittedNext, c, id)
                                     = {products[id].price}
                                /\ \A s \in Params :
                                      SqlNumber(s) = c
                                        => ListedPrices(CommittedNext, s, id)
                                             = {products[id].price}
                /\ upsertCustomerPriceHandler(p, c, id, price, <<TRUE>>)
                   /\ RowsOfKey(cpp, c, id) # {}
                     => /\ RowsOfKey(cpp', c, id)
                             = {[customer_id |-> c, product_id |-> id,
                                 price |-> price, is_active |-> TRUE]}
                        /\ ItemPriceRows(CommittedNext, c, id) = {price}
                        /\ products[id].is_active
                             => /\ SubtotalPriceRows(CommittedNext, c, id) = {price}
                                /\ \A s \in Params :
                                      SqlNumber(s) = c
                                        => ListedPrices(CommittedNext, s, id) = {price}]_vars

\* the listing showed customer 1 the override price 3 of product 1; the
\* override row is still stored, now inactive
C17_Witness ==
    /\ res[1] = Ok
    /\ cpp = {UpsertedRow(1, 1, 3, <<FALSE>>)}
    /\ res[2].kind = "ok"
    /\ res[2] # Ok
    /\ [id |-> 1, price |-> 3, is_active |-> TRUE] \in res[2].rows

\* C18: a delete request that gives both parameters and whose statement the
\* store does not fail is answered ok whether or not the key has a row:
\* afterwards the key has none and the price resolved for it is the product's
\* base price; if it had none the table is unchanged; and the rows of every
\* other key are as before.
C18_RemoveOverride ==
    [][\A p \in Procs :
         pc[p] = "idle" /\ pc'[p] = "done"
           => \A s \in Params \ {""}, t \in Params \ {""} :
                deleteCustomerPriceHandler(p, s, t) /\ res'[p].kind # "StorageError"
                  => LET c == SqlNumber(s)
                         id == SqlNumber(t)
                     IN /\ res'[p] = Ok
                        /\ RowsOfKey(cpp', c, id) = {}
                        /\ cpp' = cpp \ RowsOfKey(cpp, c, id)
                        /\ RowsOfKey(cpp, c, id) = {} => cpp' = cpp
                        /\ id \in DOMAIN products
                             => /\ ItemPriceRows(CommittedNext, c, id)
                                     = {products[id].price}
                                /\ SubtotalPriceRows(CommittedNext, c, id)
                                     \subseteq {products[id].price}
                                /\ ListedPrices(CommittedNext, s, id)
                                     \subseteq {products[id].price}]_vars

\* the listing showed customer 1 the overrides 4 and 3; the override of
\* product 1 was then removed and that of product 2 is still stored
C18_Witness ==
    /\ res[1] = Ok
    /\ cpp = {UpsertedRow(1, 2, 3, <<TRUE>>)}
    /\ res[2].kind = "ok"
    /\ res[2] # Ok
    /\ res[2].rows = {[id |-> 1, price |-> 4, is_active |-> TRUE],
                      [id |-> 2, price |-> 3, is_active |-> TRUE]}

----------------------------------------------------------------------------
(* Contract of createOrder *)

\* C19: a createOrder request passes validation only with a customer, an
\* address, at least one item and a positive quantity in every item, and
\* every stored order item has a positive quantity.
C19_RejectsInvalidRequests ==
    /\ [][\A p \in Procs :
            pc[p] = "idle" /\ pc'[p] = "co_subtotal"
              => /\ req'[p].customer_id # 0
                 /\ Len(req'[p].items) > 0
                 /\ \A k \in DOMAIN req'[p].items : req'[p].items[k].qty > 0]_vars
    /\ [](\A id \in OrderIds : \A k \in DOMAIN items[id] : items[id][k].qty > 0)

\* What holds of the code: a request without customer, without address or
\* without items is answered ValidationError before the transaction begins
\* and writes nothing; the quantities are not looked at.
C19_RejectsMissingFields ==
    [][\A p \in Procs :
         pc[p] = "idle" /\ pc'[p] # "idle"
           => \A c \in Customers \cup {0}, a \in {0, 1}, l \in QtyItemLists :
                createOrderBegin(p, c, a, l)
                  => IF c = 0 \/ a = 0 \/ l = <<>>
                       THEN /\ res'[p] = ValidationError
                            /\ pc'[p] = "done"
                            /\ store' = store /\ tx' = tx /\ nextId' = nextId
                       ELSE pc'[p] = "co_subtotal"]_vars

\* an order with an item of quantity 0 is stored
C19_ZeroQuantityStored ==
    \E id \in OrderIds :
        /\ orders[id] # NoRow
        /\ \E k \in DOMAIN items[id] : items[id][k].qty <= 0

\* C20: the commit of an accepted createOrder stores, under an id that had no
\* row, an order of the request's customer with status "por_atender", no
\* driver, no delivered time and delivery fee 0, and as the order's whole
\* history one entry with no old status, new status "por_atender" and the
\* customer as actor; the answer carries the order's id.
C20_NewOrderState ==
    [][\A p \in Procs :
         pc[p] = "co_commit" /\ res'[p].kind = "ok"
           => LET id == tx[p].id
              IN /\ id \in OrderIds
                 /\ orders[id] = NoRow /\ history[id] = <<>> /\ items[id] = <<>>
                 /\ res'[p].order_id = id
                 /\ orders'[id] # NoRow
                 /\ orders'[id].customer_id = req[p].customer_id
                 /\ orders'[id].status = por_atender
                 /\ orders'[id].assigned_driver_id = NoDriver
                 /\ orders'[id].delivered_at = NULL
                 /\ orders'[id].delivery_fee = 0
                 /\ Len(history'[id]) = 1
                 /\ history'[id][1].old_status = NULL
                 /\ history'[id][1].new_status = por_atender
                 /\ history'[id][1].changed_by = req[p].customer_id
                 /\ Len(items'[id]) = Len(req[p].items)]_vars

\* the first order, of customer 1, as its creation left it
C20_Witness ==
    \E p \in Procs :
        /\ res[p] = [kind |-> "ok", order_id |-> 1]
        /\ orders[1] # NoRow
        /\ orders[1].status = por_atender
        /\ orders[1].delivery_fee = 0
        /\ history[1] = <<[old_status |-> NULL, new_status |-> por_atender,
                           changed_by |-> 1]>>

----------------------------------------------------------------------------
(* Errors of the upsert, liveness, and the shape of the history *)

\* C21: an upsert request that names a customer and a product is answered
\* ProductNotFound when the product does not exist, and CustomerNotFound
\* when the product exists and the customer does not, unless its first query
\* fails at the store, which is answered ProductNotFound as well; when both
\* exist it is answered ok and the row is written, unless a statement fails
\* at the store.  Whatever the answer, only an ok changes the table, and an
\* ok is given only when both exist.
C21_UpsertNotFound ==
    [][\A p \in Procs :
         pc[p] = "idle" /\ pc'[p] = "done"
           => \A c \in {1, 3}, id \in ProductIds \cup {3}, price \in ResolverPrices,
                 a \in IsActiveValues :
                 upsertCustomerPriceHandler(p, c, id, price, a)
                   => /\ id \notin DOMAIN products
                           => res'[p] = ProductNotFound /\ cpp' = cpp
                      /\ id \in DOMAIN products /\ c \notin Users
                           => /\ res'[p] \in {CustomerNotFound, ProductNotFound}
                              /\ cpp' = cpp
                      /\ id \in DOMAIN products /\ c \in Users
                           => \/ /\ res'[p] = Ok
                                 /\ cpp' = UpsertRow(cpp, UpsertedRow(c, id, price, a))
                              \/ /\ res'[p] \in {ProductNotFound, CustomerNotFound,
                                                 StorageError("upsert")}
                                 /\ cpp' = cpp
                      /\ res'[p] = Ok => id \in DOMAIN products /\ c \in Users
                      /\ res'[p] = CustomerNotFound => id \in DOMAIN products
                      /\ res'[p] # Ok => cpp' = cpp]_vars

\* after an accepted upsert for customer 1 and product 1, one request was
\* turned down for its product and one for its customer
C21_Witness ==
    /\ res[1] = ProductNotFound
    /\ res[2] = CustomerNotFound
    /\ cpp = {UpsertedRow(1, 1, 3, <<>>)}

\* worker p is inside the transaction of an assignOrder or updateOrderStatus
InTransition(p) ==
    pc[p] \in {"as_select", "as_update", "as_history", "as_commit",
               "us_select", "us_update", "us_history", "us_commit"}

\* C22: every assignOrder and updateOrderStatus request that began is
\* eventually answered, and a worker that is idle or has answered holds no
\* row lock; a request holds at most the lock of the order it names; a
\* request at its SELECT ... FOR UPDATE can take the row unless another
\* request on the same order holds it, and the holder of a row is past its
\* SELECT and so never waits: no set of requests waits for each other.
C22_TransitionsComplete ==
    /\ \A p \in Procs : InTransition(p) ~> pc[p] = "done"
    /\ [](\A p \in Procs :
            ~InTransition(p) => \A id \in DOMAIN lock : lock[id] # p)
    /\ [](\A p \in Procs, id \in DOMAIN lock :
            lock[id] = p => req[p].id = id /\ pc[p] \notin {"as_select", "us_select"})
    /\ [](\A p \in Procs :
            pc[p] \in {"as_select", "us_select"} /\ ~CanLock(p, req[p].id)
              => \E q \in Procs \ {p} :
                    /\ lock[req[p].id] = q
                    /\ req[q].id = req[p].id
                    /\ pc[q] \in {"as_update", "as_history", "as_commit",
                                  "us_update", "us_history", "us_commit"})
    /\ [][\A p \in Procs :
            InTransition(p) /\ pc'[p] = "done" => \A id \in DOMAIN lock : lock'[id] # p]_vars

\* the two workers hold the rows of the two orders at the same time
C22_Witness ==
    /\ lock[1] = 1
    /\ lock[2] = 2
    /\ pc[1] = "as_commit"
    /\ pc[2] = "us_commit"

\* the rows are a chain of transitions that starts at the creation
IsChain(rows) ==
    rows # <<>>
      => /\ rows[1].old_status = NULL
         /\ rows[1].new_status = por_atender
         /\ \A k \in 2..Len(rows) : rows[k].old_status = rows[k - 1].new_status

\* C23: the history of every order, in the order of insertion, is a chain:
\* its first entry goes from no status to "por_atender", every later entry
\* starts at the status the entry before it ended at, and the last entry ends
\* at the status stored in the order; an order that is not stored has no
\* history.  A history listing returns the rows of such a chain, ending at
\* the order's status at the time of the read.
C23_HistoryIsChain ==
    /\ [](\A id \in DOMAIN orders :
            IF orders[id] = NoRow
              THEN history[id] = <<>>
              ELSE /\ history[id] # <<>>
                   /\ IsChain(history[id])
                   /\ Last(history[id]).new_status = orders[id].status)
    /\ [][\A p \in Procs :
            pc[p] = "idle" /\ res'[p].kind = "ok" /\ res'[p] # Ok
              => /\ IsChain(res'[p].rows)
                 /\ \E id \in DOMAIN orders :
                       /\ res'[p].rows = history[id]
                       /\ orders[id] # NoRow
                            => Last(res'[p].rows).new_status = orders[id].status]_vars

\* a listing returned the three entries of an order that was assigned and
\* then cancelled, while the other worker had a request on it turned down
C23_Witness ==
    \E p, q \in Procs :
        /\ "rows" \in DOMAIN res[p]
        /\ Len(res[p].rows) = 3
        /\ res[p].rows[3] = [old_status |-> asignado, new_status |-> cancelado,
                             changed_by |-> 1]
        /\ res[q].kind = "InvalidTransition"

----------------------------------------------------------------------------
(* The assigned driver *)

\* the statuses of an order that is with a driver
WithDriver == {asignado, en_camino, entregado}

\* C24: every stored order whose status is "asignado", "en_camino" or
\* "entregado" has an assigned driver.
C24_ActiveOrderHasDriver ==
    \A id \in DOMAIN orders :
        orders[id] # NoRow /\ orders[id].status \in WithDriver
          => orders[id].assigned_driver_id # NoDriver

\* What holds of the code: of the commits that move an order out of
\* "por_atender" into one of these statuses, those of assignOrder leave the
\* order with the driver of the request and those of updateOrderStatus leave
\* it without one; no later commit of updateOrderStatus gives it one.
C24_DriverOnlyFromAssignOrder ==
    [][\A p \in Procs :
         pc[p] \in {"as_commit", "us_commit"} /\ res'[p] = Ok
           => LET id == tx[p].id
              IN /\ pc[p] = "as_commit"
                      => /\ orders[id].status = por_atender
                         /\ orders'[id].status = asignado
                         /\ orders'[id].assigned_driver_id = req[p].driver_id
                         /\ req[p].driver_id # NoDriver
                 /\ pc[p] = "us_commit"
                      => orders'[id].assigned_driver_id = orders[id].assigned_driver_id]_vars

\* an order was delivered without ever having a driver
C24_DeliveredWithoutDriver ==
    \E id \in DOMAIN orders :
        /\ orders[id] # NoRow
        /\ orders[id].status = entregado
        /\ orders[id].assigned_driver_id = NoDriver
        /\ Len(history[id]) = 4

\* C25: a stored order with status "por_atender" has no assigned driver; a
\* stored order that has a driver keeps that driver in every step, whatever
\* request commits, a cancellation included; and the driver of a stored
\* order changes only at the commit of an assignOrder on it, from none to the
\* driver of the request, while the order is "por_atender".
C25_DriverWriteOnce ==
    /\ [](\A id \in DOMAIN orders :
            orders[id] # NoRow /\ orders[id].status = por_atender
              => orders[id].assigned_driver_id = NoDriver)
    /\ [][\A id \in DOMAIN orders :
            orders[id] # NoRow
              => /\ orders'[id] # NoRow
                 /\ orders[id].assigned_driver_id # NoDriver
                      => orders'[id].assigned_driver_id = orders[id].assigned_driver_id
                 /\ orders'[id].assigned_driver_id # orders[id].assigned_driver_id
                      => /\ orders[id].status = por_atender
                         /\ orders'[id].status = asignado
                         /\ \E p \in Procs :
                               /\ pc[p] = "as_commit"
                               /\ tx[p].id = id
                               /\ orders'[id].assigned_driver_id = req[p].driver_id]_vars
    /\ [](\A p \in Procs :
            pc[p] \in {"us_history", "us_commit"}
              => tx[p].row.assigned_driver_id = orders[tx[p].id].assigned_driver_id)

\* the order was assigned to driver 2 and then cancelled, and still carries
\* driver 2; an assignOrder on it was turned down
C25_Witness ==
    /\ orders[1] # NoRow
    /\ orders[1].status = cancelado
    /\ orders[1].assigned_driver_id = 2
    /\ \E p \in Procs : res[p] = AssignRejection(cancelado)

====
